---- MODULE Spec2Model ----
(***************************************************************************)
(* A model of network-discovery.py: the port and MAC normalisers, the      *)
(* traffic-age parser, the OUI vendor cache, the per-device collector and  *)
(* its merge, and main's collection loop.  Text is modelled as sequences   *)
(* of one-character strings so that the string operations of the source    *)
(* (strip, startswith, replace, lower, split, join, the regular            *)
(* expressions) are computed character by character.                       *)
(***************************************************************************)
EXTENDS Integers, Sequences, FiniteSets, TLC

VARIABLES
    \* normalisers: the function applied, its input, the result of applying
    \* it once and of applying it to that result again
    fn, raw, once, twice,
    \* parse_last_traffic: the lines of the output, the position of the loop,
    \* the locals cur_port and rows, the clock reading, where the call stands,
    \* and (history) the line each row was made from
    lines, ln, cur_port, rows, now, tpc, src,
    \* the vendor cache: the persisted file oui_cache.csv, the in-memory dict,
    \* and per get_vendor call in progress its position, its mac, the vendor
    \* it resolved, the frame update_oui_cache read and the value returned;
    \* workers are the callers, run counts the runs of the program, failed
    \* (history) holds the MACs whose external lookup has failed
    store, oui_dict, gpc, gmac, gvend, gdf, gret, workers, failed, run,
    \* collect_switch_data's data path: what the four commands yield (the
    \* regular expressions' matches), the external API's answers, and the
    \* outcome
    out_if, out_mac, out_lldp, out_last, api, mpc, snapshot,
    \* collect_switch_data's locals: the four parsed frames
    df_if, df_mac, df_lldp, df_last,
    \* main: the inventory, the position in main, the loop index, the locals
    \* of the running collect_switch_data, the open device sessions, the
    \* frames, the aggregate, the two sinks, the exit status, the date, and
    \* (history) what each device's collection ended with
    access, pc, dev, hostname, arp_map, open, frames, df_all,
    sqlite, excel, exit_status, today, collected

normVars  == <<fn, raw, once, twice>>
trafVars  == <<lines, ln, cur_port, rows, now, tpc, src>>
vendVars  == <<store, oui_dict, gpc, gmac, gvend, gdf, gret, workers, failed, run>>
mergeVars == <<out_if, out_mac, out_lldp, out_last, api, mpc, snapshot>>
frameVars == <<df_if, df_mac, df_lldp, df_last>>
mainVars  == <<access, pc, dev, hostname, arp_map, open, frames, df_all,
               sqlite, excel, exit_status, today, collected>>

vars == <<normVars, trafVars, vendVars, mergeVars, frameVars, mainVars>>

\* Python's None, where the value is otherwise text
None == <<"None">>

(***************************************************************************)
(* Text helpers (Python str methods).                                      *)
(***************************************************************************)
UPPERCASE == <<"A", "B", "C", "D", "E", "F", "G", "H", "I", "J", "K", "L", "M",
               "N", "O", "P", "Q", "R", "S", "T", "U", "V", "W", "X", "Y", "Z">>
LOWERCASE == <<"a", "b", "c", "d", "e", "f", "g", "h", "i", "j", "k", "l", "m",
               "n", "o", "p", "q", "r", "s", "t", "u", "v", "w", "x", "y", "z">>
DIGITS == <<"0", "1", "2", "3", "4", "5", "6", "7", "8", "9">>

Range(s) == {s[k] : k \in DOMAIN s}

Letters == Range(UPPERCASE) \cup Range(LOWERCASE)
Digits == Range(DIGITS)
IsSpace(c) == c \in {" ", "\t"}

\* str.lower() on one character
LowerChar(c) ==
    IF c \in Range(UPPERCASE)
    THEN LOWERCASE[CHOOSE k \in DOMAIN UPPERCASE : UPPERCASE[k] = c]
    ELSE c

\* str.lower()
Lower(s) == [k \in DOMAIN s |-> LowerChar(s[k])]

\* s.replace(c, "") for a single character c
Remove(s, c) ==
    LET Keep(x) == x # c IN SelectSeq(s, Keep)

\* s[a:] for a 1-based first position a
From(s, a) == SubSeq(s, a, Len(s))

\* str.startswith
StartsWith(s, p) == Len(s) >= Len(p) /\ SubSeq(s, 1, Len(p)) = p

RECURSIVE LStrip(_)
LStrip(s) ==
    IF s # <<>> /\ IsSpace(Head(s)) THEN LStrip(Tail(s)) ELSE s

RECURSIVE RStrip(_)
RStrip(s) ==
    IF s # <<>> /\ IsSpace(s[Len(s)]) THEN RStrip(SubSeq(s, 1, Len(s) - 1)) ELSE s

\* str.strip()
Strip(s) == RStrip(LStrip(s))

\* int(text) for a non-empty string of decimal digits
DigitVal(c) == (CHOOSE k \in DOMAIN DIGITS : DIGITS[k] = c) - 1

RECURSIVE ToInt(_)
ToInt(ds) ==
    IF ds = <<>> THEN 0
    ELSE 10 * ToInt(SubSeq(ds, 1, Len(ds) - 1)) + DigitVal(ds[Len(ds)])

\* str(n) for n >= 0, as the f-string renders an int
RECURSIVE ToStr(_)
ToStr(n) ==
    IF n < 10 THEN <<DIGITS[n + 1]>>
    ELSE ToStr(n \div 10) \o <<DIGITS[(n % 10) + 1]>>

\* the length of the longest run of characters of the class cls that starts
\* at position a of s (a greedy [A-Za-z]+ or \d+ of a regular expression)
RECURSIVE RunLen(_, _, _)
RunLen(s, a, cls) ==
    IF a <= Len(s) /\ s[a] \in cls THEN 1 + RunLen(s, a + 1, cls) ELSE 0

(***************************************************************************)
(* PREFIX_MAP, in the dict's insertion order.                              *)
(***************************************************************************)
PREFIX_MAP ==
    << << <<"G","i","g","a","b","i","t","E","t","h","e","r","n","e","t">>, <<"G","i">> >>,
       << <<"F","a","s","t","E","t","h","e","r","n","e","t">>, <<"F","a">> >>,
       << <<"T","e","n","G","i","g","a","b","i","t","E","t","h","e","r","n","e","t">>, <<"T","e">> >>,
       << <<"T","w","e","n","t","y","F","i","v","e","G","i","g","E">>, <<"T","f">> >>,
       << <<"F","o","r","t","y","G","i","g","a","b","i","t","E","t","h","e","r","n","e","t">>, <<"F","o">> >>,
       << <<"H","u","n","d","r","e","d","G","i","g","E">>, <<"H","u">> >>,
       << <<"E","t","h","e","r","n","e","t">>, <<"E","t">> >>,
       << <<"P","o","r","t","-","c","h","a","n","n","e","l">>, <<"P","o">> >> >>

(***************************************************************************)
(* normalize_mac                                                           *)
(***************************************************************************)
\* ":".join(mac[i : i + 2] for i in range(0, len(mac), 2))
RECURSIVE JoinPairs(_)
JoinPairs(mac) ==
    IF Len(mac) <= 2 THEN mac
    ELSE SubSeq(mac, 1, 2) \o <<":">> \o JoinPairs(From(mac, 3))

normalize_mac(text) == JoinPairs(Lower(Remove(text, ".")))

(***************************************************************************)
(* normalize_port                                                          *)
(***************************************************************************)
\* the for loop over PREFIX_MAP.items(): the first long prefix the port
\* starts with is replaced by its short code, and the loop breaks
SubstitutePrefix(port) ==
    LET hits == {k \in DOMAIN PREFIX_MAP : StartsWith(port, PREFIX_MAP[k][1])}
    IN  IF hits = {} THEN port
        ELSE LET k == CHOOSE h \in hits : \A g \in hits : h <= g
             IN  PREFIX_MAP[k][2] \o From(port, Len(PREFIX_MAP[k][1]) + 1)

\* re.match(r"([A-Za-z]+)(\d+)(/(\d+)){n-1}", port): the numeric groups of
\* the match with n numeric components, starting at position a; <<>> when
\* there is no match.  Every quantifier is greedy and is followed by a
\* character outside its class, so each group is a maximal run.
RECURSIVE MatchComponents(_, _, _)
MatchComponents(port, a, n) ==
    LET d == RunLen(port, a, Digits)
    IN  IF d = 0 THEN <<>>
        ELSE IF n = 1 THEN <<SubSeq(port, a, a + d - 1)>>
        ELSE IF a + d <= Len(port) /\ port[a + d] = "/"
             THEN LET rest == MatchComponents(port, a + d + 1, n - 1)
                  IN  IF rest = <<>> THEN <<>>
                      ELSE <<SubSeq(port, a, a + d - 1)>> \o rest
             ELSE <<>>

\* the groups <<m[1], m[2], ...>> of the match, or <<>> (no match)
MatchPort(port, n) ==
    LET l == RunLen(port, 1, Letters)
    IN  IF l = 0 THEN <<>>
        ELSE LET nums == MatchComponents(port, l + 1, n)
             IN  IF nums = <<>> THEN <<>>
                 ELSE <<SubSeq(port, 1, l)>> \o nums

\* "{int(m[2])}/{int(m[3])}/..."
RECURSIVE RenderNums(_)
RenderNums(nums) ==
    IF Len(nums) = 1 THEN ToStr(ToInt(nums[1]))
    ELSE ToStr(ToInt(nums[1])) \o <<"/">> \o RenderNums(Tail(nums))

\* f"{m[1]}{int(m[2])}/..."
Render(m) == m[1] \o RenderNums(Tail(m))

normalize_port(text) ==
    LET port == SubstitutePrefix(Strip(text))
        m    == MatchPort(port, 3)
        m2   == MatchPort(port, 2)
        m3   == MatchPort(port, 1)
    IN  IF m # <<>> THEN Render(m)
        ELSE IF m2 # <<>> THEN Render(m2)
        ELSE IF m3 # <<>> THEN Render(m3)
        ELSE port

(***************************************************************************)
(* The normalisers applied to an input and again to their own result.      *)
(***************************************************************************)
\* the largest number of leading zeros put before a numeric component
MaxPad == 1

RECURSIVE Zeros(_)
Zeros(k) == IF k = 0 THEN <<>> ELSE <<"0">> \o Zeros(k - 1)

\* twelve hex digits, and their spellings
HexDigits ==
    { <<"a","a","b","b","c","c","d","d","e","e","f","f">>,
      <<"0","0","1","A","2","b","3","C","4","d","5","E">>,
      <<"0","1","2","3","4","5","6","7","8","9","a","b">> }

\* groups of g characters joined by sep
RECURSIVE Grouped(_, _, _)
Grouped(s, g, sep) ==
    IF Len(s) <= g THEN s
    ELSE SubSeq(s, 1, g) \o sep \o Grouped(From(s, g + 1), g, sep)

UpperChar(c) ==
    IF c \in Range(LOWERCASE)
    THEN UPPERCASE[CHOOSE k \in DOMAIN LOWERCASE : LOWERCASE[k] = c]
    ELSE c

Upper(s) == [k \in DOMAIN s |-> UpperChar(s[k])]

Spellings(d) ==
    LET forms == { Grouped(d, 4, <<".">>), Grouped(d, 2, <<"-">>), d }
    IN  forms \cup {Upper(f) : f \in forms} \cup {Lower(f) : f \in forms}

MacInputs == UNION {Spellings(d) : d \in HexDigits}

PortHeads ==
    { <<>>, <<"G","i">>, <<"F","a">>, <<"V","l","a","n">>,
      <<"G","i","g","a","b","i","t","E","t","h","e","r","n","e","t">>,
      <<"T","e","n","G","i","g","a","b","i","t","E","t","h","e","r","n","e","t">>,
      <<"E","t","h","e","r","n","e","t">>,
      <<"P","o","r","t","-","c","h","a","n","n","e","l">>,
      \* a long prefix followed by the rest of a long prefix
      <<"E","t","h","e","r","n","e","t","h","e","r","n","e","t">>,
      <<"F","a","s","t","E","t","h","e","r","n","e","t","s","t","E","t","h","e","r","n","e","t">>,
      <<"P","o","r","t","-","c","h","a","n","n","e","l","r","t","-","c","h","a","n","n","e","l">> }

PortNumbers == { <<"0">>, <<"1">>, <<"1","0">> }

PortComponents == {Zeros(k) \o n : k \in 0..MaxPad, n \in PortNumbers}

PortNumerics ==
    { <<>> } \cup PortComponents
    \cup { a \o <<"/">> \o b : a \in PortComponents, b \in PortComponents }
    \cup { a \o <<"/">> \o b \o <<"/">> \o c :
             a \in PortComponents, b \in PortNumbers, c \in PortComponents }

PortTails == { <<>>, <<"a","b","c">>, <<"/">>, <<" ">>, <<"/","2">> }

PortInputs ==
    { ws \o h \o n \o t :
        ws \in {<<>>, <<" ">>}, h \in PortHeads, n \in PortNumerics, t \in PortTails }

NormInit ==
    /\ fn \in {"normalize_mac", "normalize_port"}
    /\ raw \in (IF fn = "normalize_mac" THEN MacInputs ELSE PortInputs)
    /\ once = None
    /\ twice = None

NormIdle ==
    /\ fn = "idle"
    /\ raw = <<>>
    /\ once = None
    /\ twice = None

\* x = normalize_mac(raw)
NormalizeMac ==
    /\ fn = "normalize_mac"
    /\ once = None
    /\ once' = normalize_mac(raw)
    /\ UNCHANGED <<fn, raw, twice>>
    /\ UNCHANGED <<trafVars, vendVars, mergeVars, frameVars, mainVars>>

\* normalize_mac(x)
NormalizeMacAgain ==
    /\ fn = "normalize_mac"
    /\ once # None
    /\ twice = None
    /\ twice' = normalize_mac(once)
    /\ UNCHANGED <<fn, raw, once>>
    /\ UNCHANGED <<trafVars, vendVars, mergeVars, frameVars, mainVars>>

\* x = normalize_port(raw)
NormalizePort ==
    /\ fn = "normalize_port"
    /\ once = None
    /\ once' = normalize_port(raw)
    /\ UNCHANGED <<fn, raw, twice>>
    /\ UNCHANGED <<trafVars, vendVars, mergeVars, frameVars, mainVars>>

\* normalize_port(x)
NormalizePortAgain ==
    /\ fn = "normalize_port"
    /\ once # None
    /\ twice = None
    /\ twice' = normalize_port(once)
    /\ UNCHANGED <<fn, raw, once>>
    /\ UNCHANGED <<trafVars, vendVars, mergeVars, frameVars, mainVars>>

(***************************************************************************)
(* _age_to_timedelta                                                       *)
(***************************************************************************)
\* a timedelta is its number of seconds; these two stand for the None the
\* function returns and for the ValueError it raises
NoDelta == 0 - 1
ValueError == 0 - 2

\* text.split(c)
RECURSIVE Split(_, _)
Split(s, c) ==
    LET hits == {k \in DOMAIN s : s[k] = c}
    IN  IF hits = {} THEN <<s>>
        ELSE LET k == CHOOSE h \in hits : \A g \in hits : h <= g
             IN  <<SubSeq(s, 1, k - 1)>> \o Split(From(s, k + 1), c)

\* dict(w=604800, d=86400, h=3600, m=60, s=1)[unit]
UnitSeconds(unit) ==
    CASE unit = "w" -> 604800
      [] unit = "d" -> 86400
      [] unit = "h" -> 3600
      [] unit = "m" -> 60
      [] unit = "s" -> 1

Units == {"w", "d", "h", "m", "s"}

\* the sum over re.findall(r"(\d+)([wdhms])", text) from position a: a match
\* is a maximal run of digits followed by a unit letter
RECURSIVE SumUnits(_, _)
SumUnits(text, a) ==
    IF a > Len(text) THEN 0
    ELSE LET d == RunLen(text, a, Digits)
         IN  IF d = 0 THEN SumUnits(text, a + 1)
             ELSE IF a + d <= Len(text) /\ text[a + d] \in Units
                  THEN ToInt(SubSeq(text, a, a + d - 1)) * UnitSeconds(text[a + d])
                       + SumUnits(text, a + d + 1)
                  ELSE SumUnits(text, a + d)

\* int(x) succeeds on a non-empty string of digits
IsInt(x) == x # <<>> /\ \A k \in DOMAIN x : x[k] \in Digits

age_to_timedelta(text) ==
    IF Lower(text) = <<"n", "e", "v", "e", "r">> THEN NoDelta
    ELSE IF ":" \in Range(text)
    THEN LET parts == Split(text, ":")
         IN  IF Len(parts) = 3 /\ \A k \in 1..3 : IsInt(parts[k])
             THEN ToInt(parts[1]) * 3600 + ToInt(parts[2]) * 60 + ToInt(parts[3])
             ELSE ValueError
    ELSE LET total == SumUnits(text, 1)
         IN  IF total # 0 THEN total ELSE NoDelta

(***************************************************************************)
(* parse_last_traffic.  A line is what the two regular expressions capture *)
(* from it: kind "hdr" with the port when hdr matches, kind "last" with    *)
(* the two ages when hdr does not match and last does, kind "other"        *)
(* otherwise.                                                              *)
(***************************************************************************)
HdrLine(p) == [kind |-> "hdr", port |-> p, inp |-> <<>>, out |-> <<>>]
LastLine(x, y) == [kind |-> "last", port |-> <<>>, inp |-> x, out |-> y]
OtherLine == [kind |-> "other", port |-> <<>>, inp |-> <<>>, out |-> <<>>]

\* "Never" in the last_traffic_seen column; a timestamp is a number of seconds
Never == 0 - 1

\* the truth value Python gives a timedelta or None in "if d"
TruthyDelta(d) == d # NoDelta /\ d # 0

\* the truth value of cur_port in "if cur_port"
TruthyPort(p) == p # None /\ p # <<>>

Min(a, b) == IF a <= b THEN a ELSE b

\* deltas = [d for d in (in_d, out_d) if d]; now - min(deltas) or "Never"
Stamp(in_d, out_d, clock) ==
    IF TruthyDelta(in_d) /\ TruthyDelta(out_d) THEN clock - Min(in_d, out_d)
    ELSE IF TruthyDelta(in_d) THEN clock - in_d
    ELSE IF TruthyDelta(out_d) THEN clock - out_d
    ELSE Never

\* the longest output parse_last_traffic is given
MaxLines == 4

\* the seconds of the unit w, in which the clock readings are given
WEEK == 604800

PortA == <<"G","i","g","a","b","i","t","E","t","h","e","r","n","e","t","1","/","0","/","1">>
PortB == <<"G","i","1","/","0","/","2">>
PortAShort == <<"G","i","1","/","0","/","1">>

Ages ==
    { <<"n","e","v","e","r">>, <<"N","e","v","e","r">>,
      <<"0","0",":","0","0",":","0","0">>, <<"0","0",":","0","0",":","0","5">>,
      <<"0","0",":","0","5",":","3","0">>, <<"0","s">>, <<"5","s">>, <<"1","m">>,
      <<"1","w","2","d">>, <<"0","1",":","3","0">> }

TrafficLines ==
    { HdrLine(PortA), HdrLine(PortB), OtherLine,
      LastLine(<<"n","e","v","e","r">>, <<"n","e","v","e","r">>),
      LastLine(<<"0","0",":","0","0",":","0","5">>, <<"1","m">>),
      LastLine(<<"0","1",":","3","0">>, <<"n","e","v","e","r">>) }

SeqsUpTo(S, n) == UNION {[1..k -> S] : k \in 0..n}

TrafStart ==
    /\ ln = 1
    /\ cur_port = None
    /\ rows = <<>>
    /\ src = <<>>
    /\ tpc = "loop"

\* datetime.datetime.now(), in seconds; the clock does not advance during a
\* call
ClockInit == now \in {3 * WEEK, 3 * WEEK + 1}
ClockIdle == now = 0

\* any output of up to MaxLines lines
TrafInit ==
    /\ lines \in SeqsUpTo(TrafficLines, MaxLines)
    /\ TrafStart
    /\ ClockInit

\* a port header, possibly other lines, and one 'Last input X, output Y,' line
AgeInit ==
    /\ \E p \in {PortA, PortB}, x \in Ages, y \in Ages :
         lines \in { <<HdrLine(p), LastLine(x, y)>>,
                     <<HdrLine(p), OtherLine, LastLine(x, y)>> }
    /\ TrafStart
    /\ ClockInit

TrafIdle ==
    /\ lines = <<>>
    /\ ln = 1
    /\ cur_port = None
    /\ rows = <<>>
    /\ src = <<>>
    /\ tpc = "idle"

\* m_hdr: cur_port = normalize_port(m_hdr.group(1)); continue
ReadHeader ==
    /\ tpc = "loop" /\ ln <= Len(lines)
    /\ lines[ln].kind = "hdr"
    /\ cur_port' = normalize_port(lines[ln].port)
    /\ ln' = ln + 1
    /\ UNCHANGED <<lines, rows, now, tpc, src>>
    /\ UNCHANGED <<normVars, vendVars, mergeVars, frameVars, mainVars>>

\* no current port, or a current port and no m_last: next line
SkipLine ==
    /\ tpc = "loop" /\ ln <= Len(lines)
    /\ lines[ln].kind # "hdr"
    /\ ~TruthyPort(cur_port) \/ lines[ln].kind # "last"
    /\ ln' = ln + 1
    /\ UNCHANGED <<lines, cur_port, rows, now, tpc, src>>
    /\ UNCHANGED <<normVars, vendVars, mergeVars, frameVars, mainVars>>

\* a parser that would leave the current port set after a row is appended
KeepPort(p) == p

\* line 190: the current port after a row is appended
AfterEmit(p) == None

\* m_last under a current port: append the row, cur_port = None
EmitRecord ==
    /\ tpc = "loop" /\ ln <= Len(lines)
    /\ lines[ln].kind = "last"
    /\ TruthyPort(cur_port)
    /\ LET in_d  == age_to_timedelta(lines[ln].inp)
           out_d == age_to_timedelta(lines[ln].out)
       IN  /\ in_d # ValueError /\ out_d # ValueError
           /\ rows' = Append(rows, [port |-> cur_port,
                                    last_traffic_seen |-> Stamp(in_d, out_d, now)])
    /\ src' = Append(src, ln)
    /\ cur_port' = AfterEmit(cur_port)
    /\ ln' = ln + 1
    /\ UNCHANGED <<lines, now, tpc>>
    /\ UNCHANGED <<normVars, vendVars, mergeVars, frameVars, mainVars>>

\* _age_to_timedelta raises on an age with ":" that is not h:m:s
AgeRaises ==
    /\ tpc = "loop" /\ ln <= Len(lines)
    /\ lines[ln].kind = "last"
    /\ TruthyPort(cur_port)
    /\ \/ age_to_timedelta(lines[ln].inp) = ValueError
       \/ age_to_timedelta(lines[ln].out) = ValueError
    /\ tpc' = "raised"
    /\ UNCHANGED <<lines, ln, cur_port, rows, now, src>>
    /\ UNCHANGED <<normVars, vendVars, mergeVars, frameVars, mainVars>>

\* return pd.DataFrame(rows)
ReturnRows ==
    /\ tpc = "loop" /\ ln > Len(lines)
    /\ tpc' = "returned"
    /\ UNCHANGED <<lines, ln, cur_port, rows, now, src>>
    /\ UNCHANGED <<normVars, vendVars, mergeVars, frameVars, mainVars>>

(***************************************************************************)
(* The OUI cache: load_oui_cache, update_oui_cache, get_vendor.            *)
(* oui_cache.csv is the sequence of its data rows as written (text); a     *)
(* frame read from it holds the values pandas parses.  A missing file and  *)
(* a file without rows both give a frame without rows.                     *)
(***************************************************************************)
\* the value pandas gives a missing field
NaN == "<NaN>"

\* among pandas' default na_values: text that read_csv parses as NaN
NA_VALUES == {"", "N/A", "NA", "NULL", "NaN", "None", "n/a", "nan", "null"}

\* pd.read_csv on one field, and to_csv on one value
ReadField(text) == IF text \in NA_VALUES THEN NaN ELSE text
WriteField(v) == IF v = NaN THEN "" ELSE v

\* pd.read_csv(LOCAL_OUI_CACHE_FILE), or the empty frame when it is missing
read_csv(file) ==
    [k \in DOMAIN file |-> [oui |-> file[k].oui, vendor |-> ReadField(file[k].vendor)]]

\* df.to_csv(LOCAL_OUI_CACHE_FILE, index=False): the file is replaced
to_csv(df) ==
    [k \in DOMAIN df |-> [oui |-> df[k].oui, vendor |-> WriteField(df[k].vendor)]]

\* df.oui.values
OuiValues(df) == {df[k].oui : k \in DOMAIN df}

\* dict(zip(df.oui, df.vendor)): a later row replaces an earlier one
load_oui_cache(file) ==
    LET df == read_csv(file)
    IN  [o \in OuiValues(df) |->
           df[CHOOSE k \in DOMAIN df :
                /\ df[k].oui = o
                /\ \A j \in DOMAIN df : df[j].oui = o => j <= k].vendor]

\* ":".join(mac.split(":")[:3])
RECURSIVE Join(_, _)
Join(parts, c) ==
    IF parts = <<>> THEN <<>>
    ELSE IF Len(parts) = 1 THEN parts[1]
    ELSE parts[1] \o <<c>> \o Join(Tail(parts), c)

Oui(mac) ==
    LET parts == Split(mac, ":")
    IN  Join(SubSeq(parts, 1, Min(3, Len(parts))), ":")

\* oui_dict[oui] = vendor
DictSet(d, o, v) == [x \in DOMAIN d \cup {o} |-> IF x = o THEN v ELSE d[x]]

\* a membership test that would write only the OUIs already in the file
InFrame(df, o) == o \in OuiValues(df)

\* update_oui_cache line 78: the membership test that decides the write
NotInFrame(df, o) == o \notin OuiValues(df)

\* a write that would append one row to the file as it is now, instead of
\* replacing the file by the frame that was read plus the row
AppendToFile(df, o, v) == store \o <<[oui |-> o, vendor |-> WriteField(v)]>>

\* update_oui_cache lines 79-80: the file the write leaves
ConcatAndSave(df, o, v) == to_csv(Append(df, [oui |-> o, vendor |-> v]))

\* what requests.get gives: a vendor name with r.ok, or a failure (a
\* response that is not ok, a timeout, any exception)
Responses ==
    { [ok |-> TRUE, text |-> "Cisco Systems, Inc"],
      [ok |-> TRUE, text |-> "N/A"],
      [ok |-> FALSE, text |-> "Not Found"],
      [ok |-> FALSE, text |-> "<timeout>"] }

\* the vendor get_vendor stores and returns for a response
Resolved(resp) == IF resp.ok THEN resp.text ELSE "Unknown"

MacX1 == <<"a","a",":","b","b",":","c","c",":","d","d",":","e","e",":","f","f">>
MacX2 == <<"a","a",":","b","b",":","c","c",":","1","1",":","2","2",":","3","3">>
MacY1 == <<"0","0",":","1","a",":","2","b",":","0","0",":","0","0",":","0","1">>
Macs == {MacX1, MacX2, MacY1}
Ouis == {Oui(m) : m \in Macs}

\* the cache files a run can start from: rows the program wrote earlier,
\* at most one per OUI
StoredVendors == {"Cisco Systems, Inc", "Unknown", ""}

InitialStores ==
    { f \in SeqsUpTo([oui : Ouis, vendor : StoredVendors], Cardinality(Ouis)) :
        \A j, k \in DOMAIN f : f[j].oui = f[k].oui => j = k }

\* the most runs of the program followed
MaxRuns == 2

VendStart(w) ==
    /\ workers = w
    /\ store \in InitialStores
    /\ oui_dict = load_oui_cache(store)
    /\ gpc = [r \in w |-> "idle"]
    /\ gmac = [r \in w |-> <<>>]
    /\ gvend = [r \in w |-> ""]
    /\ gdf = [r \in w |-> <<>>]
    /\ gret = [r \in w |-> ""]
    /\ failed = {}
    /\ run = 1

\* two get_vendor calls that may interleave
VendInit == VendStart({1, 2})

\* main's one thread of calls, run after run
RunsInit == VendStart({1})

VendIdle ==
    /\ workers = {}
    /\ store = <<>>
    /\ oui_dict = <<>>
    /\ gpc = <<>>
    /\ gmac = <<>>
    /\ gvend = <<>>
    /\ gdf = <<>>
    /\ gret = <<>>
    /\ failed = {}
    /\ run = 0

VendOnly == UNCHANGED <<normVars, trafVars, mergeVars, frameVars, mainVars>>

\* get_vendor(mac, oui_dict) is called
CallGetVendor(r, mac) ==
    /\ gpc[r] = "idle"
    /\ gmac' = [gmac EXCEPT ![r] = mac]
    /\ gpc' = [gpc EXCEPT ![r] = "cached?"]
    /\ UNCHANGED <<store, oui_dict, gvend, gdf, gret, workers, failed, run>>
    /\ VendOnly

\* if oui in oui_dict: return oui_dict[oui]
CacheHit(r) ==
    /\ gpc[r] = "cached?"
    /\ Oui(gmac[r]) \in DOMAIN oui_dict
    /\ gret' = [gret EXCEPT ![r] = oui_dict[Oui(gmac[r])]]
    /\ gpc' = [gpc EXCEPT ![r] = "done"]
    /\ UNCHANGED <<store, oui_dict, gmac, gvend, gdf, workers, failed, run>>
    /\ VendOnly

CacheMiss(r) ==
    /\ gpc[r] = "cached?"
    /\ Oui(gmac[r]) \notin DOMAIN oui_dict
    /\ gpc' = [gpc EXCEPT ![r] = "lookup"]
    /\ UNCHANGED <<store, oui_dict, gmac, gvend, gdf, gret, workers, failed, run>>
    /\ VendOnly

\* r = requests.get(..., timeout=5): the vendor is r.text if r.ok, "Unknown"
\* after a response that is not ok or an exception
ExternalLookup(r, resp) ==
    /\ gpc[r] = "lookup"
    /\ gvend' = [gvend EXCEPT ![r] = Resolved(resp)]
    /\ failed' = IF resp.ok THEN failed ELSE failed \cup {gmac[r]}
    /\ gpc' = [gpc EXCEPT ![r] = "set"]
    /\ UNCHANGED <<store, oui_dict, gmac, gdf, gret, workers, run>>
    /\ VendOnly

\* oui_dict[oui] = r.text, or oui_dict[oui] = "Unknown"
SetDict(r) ==
    /\ gpc[r] = "set"
    /\ oui_dict' = DictSet(oui_dict, Oui(gmac[r]), gvend[r])
    /\ gpc' = [gpc EXCEPT ![r] = "read"]
    /\ UNCHANGED <<store, gmac, gvend, gdf, gret, workers, failed, run>>
    /\ VendOnly

\* update_oui_cache: df = pd.read_csv(...) or the empty frame
ReadStore(r) ==
    /\ gpc[r] = "read"
    /\ gdf' = [gdf EXCEPT ![r] = read_csv(store)]
    /\ gpc' = [gpc EXCEPT ![r] = "test"]
    /\ UNCHANGED <<store, oui_dict, gmac, gvend, gret, workers, failed, run>>
    /\ VendOnly

\* update_oui_cache: if oui not in df.oui.values
TestMembership(r) ==
    /\ gpc[r] = "test"
    /\ gpc' = [gpc EXCEPT ![r] =
                 IF NotInFrame(gdf[r], Oui(gmac[r])) THEN "write" ELSE "return"]
    /\ UNCHANGED <<store, oui_dict, gmac, gvend, gdf, gret, workers, failed, run>>
    /\ VendOnly

\* update_oui_cache: df = pd.concat(...); df.to_csv(...)
WriteStore(r) ==
    /\ gpc[r] = "write"
    /\ store' = ConcatAndSave(gdf[r], Oui(gmac[r]), gvend[r])
    /\ gpc' = [gpc EXCEPT ![r] = "return"]
    /\ UNCHANGED <<oui_dict, gmac, gvend, gdf, gret, workers, failed, run>>
    /\ VendOnly

\* return r.text, or return "Unknown"
ReturnVendor(r) ==
    /\ gpc[r] = "return"
    /\ gret' = [gret EXCEPT ![r] = gvend[r]]
    /\ gpc' = [gpc EXCEPT ![r] = "done"]
    /\ UNCHANGED <<store, oui_dict, gmac, gvend, gdf, workers, failed, run>>
    /\ VendOnly

\* the caller goes on to its next MAC
NextCall(r) ==
    /\ gpc[r] = "done"
    /\ gpc' = [gpc EXCEPT ![r] = "idle"]
    /\ UNCHANGED <<store, oui_dict, gmac, gvend, gdf, gret, workers, failed, run>>
    /\ VendOnly

\* the process ends and a later run starts: oui_cache = load_oui_cache()
NewRun ==
    /\ \A r \in workers : gpc[r] \in {"idle", "done"}
    /\ run < MaxRuns
    /\ run' = run + 1
    /\ oui_dict' = load_oui_cache(store)
    /\ gpc' = [r \in workers |-> "idle"]
    /\ UNCHANGED <<store, gmac, gvend, gdf, gret, workers, failed>>
    /\ VendOnly

(***************************************************************************)
(* The parsers as collect_switch_data calls them, on what their regular    *)
(* expressions match in a command's output.  A DataFrame is its rows and   *)
(* whether it has columns: pd.DataFrame([]) has none.                      *)
(***************************************************************************)
\* NaN in a column of text held as characters, and in last_traffic_seen
NaNText == <<"<NaN>">>
NaNStamp == 0 - 3

\* pd.DataFrame(rows), and pd.DataFrame(rows, columns=cols)
DataFrame(rs) == [cols |-> rs # <<>>, rows |-> rs]
DataFrameWithColumns(rs) == [cols |-> TRUE, rows |-> rs]

\* parse_if_status: one row per matching line
parse_if_status(matches) ==
    DataFrame([k \in DOMAIN matches |->
                 [port |-> normalize_port(matches[k].port), status |-> matches[k].status]])

\* get_vendor run to its end without interleaving: the cache (dict and
\* file) it leaves and the vendor it returns
get_vendor(cache, mac, resp) ==
    LET o == Oui(mac)
    IN  IF o \in DOMAIN cache.dict
        THEN [dict |-> cache.dict, file |-> cache.file, ret |-> cache.dict[o]]
        ELSE LET v  == Resolved(resp)
                 df == read_csv(cache.file)
             IN  [dict |-> DictSet(cache.dict, o, v),
                  file |-> IF NotInFrame(df, o) THEN ConcatAndSave(df, o, v)
                           ELSE cache.file,
                  ret  |-> v]

\* df.drop_duplicates("port"): the first row of each port is kept; an empty
\* frame is returned as it is
RECURSIVE FirstOfPort(_, _)
FirstOfPort(rs, seen) ==
    IF rs = <<>> THEN <<>>
    ELSE IF Head(rs).port \in seen THEN FirstOfPort(Tail(rs), seen)
    ELSE <<Head(rs)>> \o FirstOfPort(Tail(rs), seen \cup {Head(rs).port})

drop_duplicates_port(df) == [cols |-> df.cols, rows |-> FirstOfPort(df.rows, {})]

\* the loop of parse_mac_table over patt.finditer(output): the rows so far
\* and the cache after each get_vendor
RECURSIVE MacRows(_, _, _, _)
MacRows(matches, cache, answers, acc) ==
    IF matches = <<>> THEN [rows |-> acc, dict |-> cache.dict, file |-> cache.file]
    ELSE LET port == normalize_port(Head(matches).port)
             mac  == normalize_mac(Head(matches).mac)
             got  == get_vendor(cache, mac, answers[mac])
         IN  MacRows(Tail(matches), [dict |-> got.dict, file |-> got.file], answers,
                     Append(acc, [port |-> port, mac_address |-> mac, vendor |-> got.ret]))

parse_mac_table(matches, cache, answers) ==
    LET done == MacRows(matches, cache, answers, <<>>)
    IN  [df   |-> drop_duplicates_port(DataFrame(done.rows)),
         dict |-> done.dict,
         file |-> done.file]

\* get_lldp_neighbors once the session has given its output: one row per
\* 'Local Intf:' block
lldp_rows(blocks) ==
    DataFrameWithColumns(
        [k \in DOMAIN blocks |->
           [port |-> normalize_port(blocks[k].port),
            neighbor_name |-> blocks[k].neighbor_name]])

\* parse_last_traffic run to its end on lines whose ages do not raise
RECURSIVE TrafficRows(_, _, _, _)
TrafficRows(ls, cur, acc, clock) ==
    IF ls = <<>> THEN acc
    ELSE LET l == Head(ls)
         IN  IF l.kind = "hdr"
             THEN TrafficRows(Tail(ls), normalize_port(l.port), acc, clock)
             ELSE IF TruthyPort(cur) /\ l.kind = "last"
             THEN TrafficRows(Tail(ls), None,
                      Append(acc, [port |-> cur,
                                   last_traffic_seen |->
                                       Stamp(age_to_timedelta(l.inp),
                                             age_to_timedelta(l.out), clock)]),
                      clock)
             ELSE TrafficRows(Tail(ls), cur, acc, clock)

parse_last_traffic(ls, clock) == DataFrame(TrafficRows(ls, None, <<>>, clock))

(***************************************************************************)
(* collect_switch_data from "normalise & merge" on.                        *)
(***************************************************************************)
\* if not f.empty: f["port"] = f["port"].apply(normalize_port)
Renormalise(df) ==
    [cols |-> df.cols,
     rows |-> [k \in DOMAIN df.rows |->
                 [df.rows[k] EXCEPT !.port = normalize_port(df.rows[k].port)]]]

\* left.merge(right, on="port", how="left") raises KeyError when a frame
\* has no port column
MergeRaises(left, right) == ~left.cols \/ ~right.cols

\* the rows of the left merge: each left row once per right row of its port,
\* once with the right's columns NaN when there is none
RECURSIVE MergeRows(_, _, _)
MergeRows(lrows, rrows, nulls) ==
    IF lrows = <<>> THEN <<>>
    ELSE LET l == Head(lrows)
             Match(r) == r.port = l.port
             ms == SelectSeq(rrows, Match)
         IN  (IF ms = <<>> THEN <<l @@ nulls>>
              ELSE [k \in DOMAIN ms |-> l @@ ms[k]])
             \o MergeRows(Tail(lrows), rrows, nulls)

merge(left, right, nulls) ==
    [cols |-> TRUE, rows |-> MergeRows(left.rows, right.rows, nulls)]

\* df_if.merge(df_mac).merge(df_lldp).merge(df_last)
MergedRaises(f_if, f_mac, f_lldp, f_last) ==
    \/ MergeRaises(f_if, f_mac)
    \/ ~f_lldp.cols
    \/ ~f_last.cols

Merged(f_if, f_mac, f_lldp, f_last) ==
    merge(merge(merge(Renormalise(f_if), Renormalise(f_mac),
                      [mac_address |-> NaNText, vendor |-> NaN]),
                Renormalise(f_lldp), [neighbor_name |-> NaN]),
          Renormalise(f_last), [last_traffic_seen |-> NaNStamp])

\* fillna(""), vendor "" -> "Unknown", ip_address, and the metadata
Finished(r, arp, name, ip, date) ==
    LET mac    == IF r.mac_address = NaNText THEN <<>> ELSE r.mac_address
        vendor == IF r.vendor = NaN THEN "" ELSE r.vendor
    IN  [switch_name |-> name,
         switch_ip |-> ip,
         port |-> r.port,
         status |-> r.status,
         mac_address |-> mac,
         vendor |-> IF vendor = "" THEN "Unknown" ELSE vendor,
         neighbor_name |-> IF r.neighbor_name = NaN THEN "" ELSE r.neighbor_name,
         last_traffic_seen |-> r.last_traffic_seen,
         ip_address |-> IF mac \in DOMAIN arp THEN arp[mac] ELSE "Unknown",
         snapshot_date |-> date]

\* the rows collect_switch_data returns when no merge raises
Snapshot(f_if, f_mac, f_lldp, f_last, arp, name, ip, date) ==
    LET df == Merged(f_if, f_mac, f_lldp, f_last)
    IN  [k \in DOMAIN df.rows |-> Finished(df.rows[k], arp, name, ip, date)]

(***************************************************************************)
(* collect_switch_data on the outputs of one device whose commands all     *)
(* succeed: the four parsers, then the merge.                              *)
(***************************************************************************)
\* the most matches one command's output holds
MaxMatches == 2

RawMacX == <<"a","a","b","b",".","c","c","d","d",".","e","e","f","f">>
RawMacY == <<"0","0","1","A",".","2","B","0","0",".","0","0","0","1">>

StatusMatches ==
    {[port |-> p, status |-> "connected"] : p \in {PortA, PortAShort, PortB}}
MacMatches == [port : {PortA, PortB}, mac : {RawMacX, RawMacY}]
LldpBlocks == {[port |-> p, neighbor_name |-> "core-sw"] : p \in {PortAShort, PortB}}

\* 'show interfaces' with a header and a 'Last input' line for each port of ps
RECURSIVE InterfaceBlocks(_)
InterfaceBlocks(ps) ==
    IF ps = <<>> THEN <<>>
    ELSE <<HdrLine(Head(ps)), OtherLine, LastLine(<<"5","s">>, <<"1","m">>)>>
         \o InterfaceBlocks(Tail(ps))

ArpTable == (MacX1 :> "10.0.0.5")

EmptyFrames ==
    /\ df_if = DataFrame(<<>>)
    /\ df_mac = DataFrame(<<>>)
    /\ df_lldp = DataFrame(<<>>)
    /\ df_last = DataFrame(<<>>)

MergeInit ==
    /\ out_if \in SeqsUpTo(StatusMatches, MaxMatches)
    /\ out_mac \in SeqsUpTo(MacMatches, MaxMatches)
    /\ out_lldp \in SeqsUpTo(LldpBlocks, MaxMatches)
    /\ out_last \in {InterfaceBlocks(ps) : ps \in SeqsUpTo({PortA, PortB}, MaxMatches)}
    /\ api \in {[m \in {normalize_mac(RawMacX), normalize_mac(RawMacY)} |-> resp] :
                  resp \in {[ok |-> TRUE, text |-> "Cisco Systems, Inc"],
                            [ok |-> FALSE, text |-> "<timeout>"]}}
    /\ now = 3 * WEEK
    /\ mpc = "start"
    /\ snapshot = <<>>
    /\ EmptyFrames

MergeIdle ==
    /\ out_if = <<>>
    /\ out_mac = <<>>
    /\ out_lldp = <<>>
    /\ out_last = <<>>
    /\ api = <<>>
    /\ mpc = "idle"
    /\ snapshot = <<>>

\* collect_switch_data lines 249-252
ParseOutputs ==
    /\ mpc = "start"
    /\ LET macs == parse_mac_table(out_mac, [dict |-> oui_dict, file |-> store], api)
       IN  /\ df_if' = parse_if_status(out_if)
           /\ df_mac' = macs.df
           /\ oui_dict' = macs.dict
           /\ store' = macs.file
    /\ df_lldp' = lldp_rows(out_lldp)
    /\ df_last' = parse_last_traffic(out_last, now)
    /\ mpc' = "parsed"
    /\ UNCHANGED <<out_if, out_mac, out_lldp, out_last, api, snapshot>>
    /\ UNCHANGED <<gpc, gmac, gvend, gdf, gret, workers, failed, run>>
    /\ UNCHANGED <<normVars, trafVars, mainVars>>

\* collect_switch_data lines 255-278, when a merge raises KeyError
MergeFails ==
    /\ mpc = "parsed"
    /\ MergedRaises(df_if, df_mac, df_lldp, df_last)
    /\ mpc' = "raised"
    /\ UNCHANGED <<out_if, out_mac, out_lldp, out_last, api, snapshot>>
    /\ UNCHANGED <<normVars, trafVars, vendVars, frameVars, mainVars>>

\* collect_switch_data lines 255-278
MergeReturns ==
    /\ mpc = "parsed"
    /\ ~MergedRaises(df_if, df_mac, df_lldp, df_last)
    /\ snapshot' = Snapshot(df_if, df_mac, df_lldp, df_last, ArpTable,
                            "sw1", "192.0.2.1", now \div 86400)
    /\ mpc' = "returned"
    /\ UNCHANGED <<out_if, out_mac, out_lldp, out_last, api>>
    /\ UNCHANGED <<normVars, trafVars, vendVars, frameVars, mainVars>>

(***************************************************************************)
(* main, get_arp_table, collect_switch_data and get_lldp_neighbors, one    *)
(* step per call that can raise.  A device session is in open from         *)
(* ConnectHandler(...) returning until its disconnect().                   *)
(***************************************************************************)
\* the most access switches in switch_list.xlsx
MaxDevices == 2

\* the devices are told apart by their position in the inventory, which
\* stands for their address
Inventory(n) == [k \in 1..n |-> [ip |-> k]]

Session(kind, d) == [kind |-> kind, dev |-> d]

Hostnames == {"sw-a", "sw-b"}

FirstDay == (3 * WEEK) \div 86400

\* what the commands of an access switch can yield
MainStatusOutputs ==
    { <<[port |-> PortA, status |-> "connected"],
        [port |-> PortB, status |-> "notconnect"]>> }
MainMacOutputs == { <<>>, <<[port |-> PortA, mac |-> RawMacX]>> }
MainLldpOutputs ==
    { <<>>,
      <<[port |-> PortAShort, neighbor_name |-> "core-sw"],
        [port |-> PortAShort, neighbor_name |-> "phone"]>> }
MainInterfaceOutputs == { InterfaceBlocks(<<PortA>>) }
MainAnswers ==
    [m \in {normalize_mac(RawMacX)} |-> [ok |-> TRUE, text |-> "Cisco Systems, Inc"]]

\* a sink: whether it was written, and the rows it was given
Unwritten == [written |-> FALSE, rows |-> <<>>]
Written(rs) == [written |-> TRUE, rows |-> rs]

Pending == [state |-> "pending", rows |-> <<>>]
Failed == [state |-> "failed", rows |-> <<>>]
Collected(rs) == [state |-> "ok", rows |-> rs]

MainInit ==
    /\ \E n \in 0..MaxDevices :
         /\ access = Inventory(n)
         /\ collected = [k \in 1..n |-> Pending]
    /\ pc = "arp_connect"
    /\ dev = 0
    /\ hostname = ""
    /\ arp_map = <<>>
    /\ open = {}
    /\ frames = <<>>
    /\ df_all = <<>>
    /\ sqlite = Unwritten
    /\ excel = Unwritten
    /\ exit_status = 0 - 1
    /\ today = FirstDay
    /\ EmptyFrames
    \* oui_cache = load_oui_cache()
    /\ store = <<>>
    /\ oui_dict = load_oui_cache(store)
    /\ gpc = <<>> /\ gmac = <<>> /\ gvend = <<>> /\ gdf = <<>> /\ gret = <<>>
    /\ workers = {} /\ failed = {} /\ run = 1

MainIdle ==
    /\ access = <<>>
    /\ pc = "idle"
    /\ dev = 0
    /\ hostname = ""
    /\ arp_map = <<>>
    /\ open = {}
    /\ frames = <<>>
    /\ df_all = <<>>
    /\ sqlite = Unwritten
    /\ excel = Unwritten
    /\ exit_status = 0 - 1
    /\ today = 0
    /\ collected = <<>>

CacheVars == <<gpc, gmac, gvend, gdf, gret, workers, failed, run>>
MainOnly == UNCHANGED <<normVars, trafVars, mergeVars>>

\* the date changes while main runs
Midnight ==
    /\ pc \notin {"idle", "exited"}
    /\ today = FirstDay
    /\ today' = today + 1
    /\ UNCHANGED <<access, pc, dev, hostname, arp_map, open, frames, df_all,
                   sqlite, excel, exit_status, collected>>
    /\ UNCHANGED <<vendVars, frameVars>> /\ MainOnly

\* get_arp_table: except Exception -> return {}
ArpFails ==
    /\ arp_map' = <<>>
    /\ pc' = "loop"

\* get_arp_table: conn = ConnectHandler(**layer3)
ArpConnect ==
    /\ pc = "arp_connect"
    /\ \/ /\ open' = open \cup {Session("arp", 0)}
          /\ pc' = "arp_enable"
          /\ UNCHANGED arp_map
       \/ /\ ArpFails
          /\ UNCHANGED open
    /\ UNCHANGED <<access, dev, hostname, frames, df_all, sqlite, excel,
                   exit_status, today, collected>>
    /\ UNCHANGED <<vendVars, frameVars>> /\ MainOnly

\* get_arp_table: conn.enable()
ArpEnable ==
    /\ pc = "arp_enable"
    /\ \/ pc' = "arp_send" /\ UNCHANGED arp_map
       \/ ArpFails
    /\ UNCHANGED <<access, dev, hostname, open, frames, df_all, sqlite, excel,
                   exit_status, today, collected>>
    /\ UNCHANGED <<vendVars, frameVars>> /\ MainOnly

\* get_arp_table: out = conn.send_command("show ip arp")
ArpSend ==
    /\ pc = "arp_send"
    /\ \/ pc' = "arp_disconnect" /\ UNCHANGED arp_map
       \/ ArpFails
    /\ UNCHANGED <<access, dev, hostname, open, frames, df_all, sqlite, excel,
                   exit_status, today, collected>>
    /\ UNCHANGED <<vendVars, frameVars>> /\ MainOnly

\* get_arp_table: conn.disconnect(); return {normalize_mac(mac): ip ...}
ArpDisconnect ==
    /\ pc = "arp_disconnect"
    /\ open' = open \ {Session("arp", 0)}
    /\ arp_map' = (normalize_mac(RawMacX) :> "10.0.0.5")
    /\ pc' = "loop"
    /\ UNCHANGED <<access, dev, hostname, frames, df_all, sqlite, excel,
                   exit_status, today, collected>>
    /\ UNCHANGED <<vendVars, frameVars>> /\ MainOnly

\* for dev in access: the next device
NextDevice ==
    /\ pc = "loop"
    /\ dev < Len(access)
    /\ dev' = dev + 1
    /\ pc' = "connect"
    /\ UNCHANGED <<access, hostname, arp_map, open, frames, df_all, sqlite,
                   excel, exit_status, today, collected>>
    /\ UNCHANGED <<vendVars, frameVars>> /\ MainOnly

\* a loop that would keep a row for a device whose collection raised
PartialRow(d) ==
    [switch_name |-> "", switch_ip |-> d, port |-> <<>>, status |-> "",
     mac_address |-> <<>>, vendor |-> "Unknown", neighbor_name |-> "",
     last_traffic_seen |-> NaNStamp, ip_address |-> "Unknown", snapshot_date |-> 0]
AppendPartial(fs, d) == Append(fs, <<PartialRow(d)>>)

\* frames after a collect_switch_data that raised: frames.append is not
\* reached
FramesAfterFailure(fs, d) == fs

\* collect_switch_data raises: main's except clause
DeviceFails ==
    /\ collected' = [collected EXCEPT ![dev] = Failed]
    /\ pc' = "loop"
    /\ frames' = FramesAfterFailure(frames, dev)

\* collect_switch_data: conn = ConnectHandler(**dev)
Connect ==
    /\ pc = "connect"
    /\ \/ /\ open' = open \cup {Session("main", dev)}
          /\ pc' = "enable"
          /\ UNCHANGED <<frames, collected>>
       \/ /\ DeviceFails
          /\ UNCHANGED open
    /\ UNCHANGED <<access, dev, hostname, arp_map, df_all, sqlite, excel,
                   exit_status, today>>
    /\ UNCHANGED <<vendVars, frameVars>> /\ MainOnly

\* collect_switch_data: conn.enable()
Enable ==
    /\ pc = "enable"
    /\ \/ pc' = "hostname" /\ UNCHANGED <<frames, collected>>
       \/ DeviceFails
    /\ UNCHANGED <<access, dev, hostname, arp_map, open, df_all, sqlite, excel,
                   exit_status, today>>
    /\ UNCHANGED <<vendVars, frameVars>> /\ MainOnly

\* hostname = conn.send_command("show run | inc ^hostname").split()[-1]
Hostname ==
    /\ pc = "hostname"
    /\ \/ /\ hostname' \in Hostnames
          /\ pc' = "status"
          /\ UNCHANGED <<frames, collected>>
       \/ /\ DeviceFails
          /\ UNCHANGED hostname
    /\ UNCHANGED <<access, dev, arp_map, open, df_all, sqlite, excel,
                   exit_status, today>>
    /\ UNCHANGED <<vendVars, frameVars>> /\ MainOnly

\* df_if = parse_if_status(conn.send_command("show interfaces status"))
Status ==
    /\ pc = "status"
    /\ \/ /\ \E o \in MainStatusOutputs : df_if' = parse_if_status(o)
          /\ pc' = "mac"
          /\ UNCHANGED <<frames, collected>>
       \/ /\ DeviceFails
          /\ UNCHANGED df_if
    /\ UNCHANGED <<access, dev, hostname, arp_map, open, df_all, sqlite, excel,
                   exit_status, today>>
    /\ UNCHANGED <<vendVars, df_mac, df_lldp, df_last>> /\ MainOnly

\* df_mac = parse_mac_table(conn.send_command("show mac address-table"), oui)
MacTable ==
    /\ pc = "mac"
    /\ \/ /\ \E o \in MainMacOutputs :
               LET macs == parse_mac_table(o, [dict |-> oui_dict, file |-> store],
                                           MainAnswers)
               IN  /\ df_mac' = macs.df
                   /\ oui_dict' = macs.dict
                   /\ store' = macs.file
          /\ pc' = "lldp_connect"
          /\ UNCHANGED <<frames, collected>>
       \/ /\ DeviceFails
          /\ UNCHANGED <<df_mac, oui_dict, store>>
    /\ UNCHANGED <<access, dev, hostname, arp_map, open, df_all, sqlite, excel,
                   exit_status, today>>
    /\ UNCHANGED <<CacheVars, df_if, df_lldp, df_last>> /\ MainOnly

\* get_lldp_neighbors: except Exception -> return pd.DataFrame(columns=cols)
LldpFails ==
    /\ df_lldp' = DataFrameWithColumns(<<>>)
    /\ pc' = "interfaces"

\* get_lldp_neighbors: conn = ConnectHandler(**dev)
LldpConnect ==
    /\ pc = "lldp_connect"
    /\ \/ /\ open' = open \cup {Session("lldp", dev)}
          /\ pc' = "lldp_enable"
          /\ UNCHANGED df_lldp
       \/ /\ LldpFails
          /\ UNCHANGED open
    /\ UNCHANGED <<access, dev, hostname, arp_map, frames, df_all, sqlite, excel,
                   exit_status, today, collected>>
    /\ UNCHANGED <<vendVars, df_if, df_mac, df_last>> /\ MainOnly

\* get_lldp_neighbors: conn.enable()
LldpEnable ==
    /\ pc = "lldp_enable"
    /\ \/ pc' = "lldp_send" /\ UNCHANGED df_lldp
       \/ LldpFails
    /\ UNCHANGED <<access, dev, hostname, arp_map, open, frames, df_all, sqlite, excel,
                   exit_status, today, collected>>
    /\ UNCHANGED <<vendVars, df_if, df_mac, df_last>> /\ MainOnly

\* get_lldp_neighbors: raw = conn.send_command("show lldp neighbors detail")
LldpSend ==
    /\ pc = "lldp_send"
    /\ \/ pc' = "lldp_disconnect" /\ UNCHANGED df_lldp
       \/ LldpFails
    /\ UNCHANGED <<access, dev, hostname, arp_map, open, frames, df_all, sqlite, excel,
                   exit_status, today, collected>>
    /\ UNCHANGED <<vendVars, df_if, df_mac, df_last>> /\ MainOnly

\* get_lldp_neighbors: conn.disconnect(), then the blocks are parsed
LldpDisconnect ==
    /\ pc = "lldp_disconnect"
    /\ open' = open \ {Session("lldp", dev)}
    /\ \/ /\ \E o \in MainLldpOutputs : df_lldp' = lldp_rows(o)
          /\ pc' = "interfaces"
       \/ LldpFails
    /\ UNCHANGED <<access, dev, hostname, arp_map, frames, df_all, sqlite, excel,
                   exit_status, today, collected>>
    /\ UNCHANGED <<vendVars, df_if, df_mac, df_last>> /\ MainOnly

\* df_last = parse_last_traffic(conn.send_command("show interfaces"))
Interfaces ==
    /\ pc = "interfaces"
    /\ \/ /\ \E o \in MainInterfaceOutputs :
               df_last' = parse_last_traffic(o, today * 86400)
          /\ pc' = "disconnect"
          /\ UNCHANGED <<frames, collected>>
       \/ /\ DeviceFails
          /\ UNCHANGED df_last
    /\ UNCHANGED <<access, dev, hostname, arp_map, open, df_all, sqlite, excel,
                   exit_status, today>>
    /\ UNCHANGED <<vendVars, df_if, df_mac, df_lldp>> /\ MainOnly

\* collect_switch_data: conn.disconnect()
Disconnect ==
    /\ pc = "disconnect"
    /\ open' = open \ {Session("main", dev)}
    /\ pc' = "merge"
    /\ UNCHANGED <<access, dev, hostname, arp_map, frames, df_all, sqlite,
                   excel, exit_status, today, collected>>
    /\ UNCHANGED <<vendVars, frameVars>> /\ MainOnly

\* collect_switch_data lines 255-278 and frames.append(...)
Merge ==
    /\ pc = "merge"
    /\ IF MergedRaises(df_if, df_mac, df_lldp, df_last)
       THEN DeviceFails
       ELSE LET snap == Snapshot(df_if, df_mac, df_lldp, df_last, arp_map,
                                 hostname, access[dev].ip, today)
            IN  /\ frames' = Append(frames, snap)
                /\ collected' = [collected EXCEPT ![dev] = Collected(snap)]
                /\ pc' = "loop"
    /\ UNCHANGED <<access, dev, hostname, arp_map, open, df_all, sqlite, excel,
                   exit_status, today>>
    /\ UNCHANGED <<vendVars, frameVars>> /\ MainOnly

\* a main that would never take the "no data" exit
NeverEmpty(fs) == FALSE

\* if not frames
NoFrames(fs) == fs = <<>>

\* pd.concat(frames, ignore_index=True)
RECURSIVE concat(_)
concat(fs) == IF fs = <<>> THEN <<>> ELSE Head(fs) \o concat(Tail(fs))

\* the subset of drop_duplicates in main
AggregateKey(r) == <<r.switch_name, r.port, r.snapshot_date>>

\* df_all.drop_duplicates(subset=[...]): the first row of each key is kept
RECURSIVE FirstOfKey(_, _)
FirstOfKey(rs, seen) ==
    IF rs = <<>> THEN <<>>
    ELSE IF AggregateKey(Head(rs)) \in seen THEN FirstOfKey(Tail(rs), seen)
    ELSE <<Head(rs)>> \o FirstOfKey(Tail(rs), seen \cup {AggregateKey(Head(rs))})

drop_duplicates(rs) == FirstOfKey(rs, {})

\* the loop is over; if not frames: sys.exit(1)
ExitNoData ==
    /\ pc = "loop"
    /\ dev >= Len(access)
    /\ NoFrames(frames)
    /\ exit_status' = 1
    /\ pc' = "exited"
    /\ UNCHANGED <<access, dev, hostname, arp_map, open, frames, df_all,
                   sqlite, excel, today, collected>>
    /\ UNCHANGED <<vendVars, frameVars>> /\ MainOnly

\* the loop is over; df_all = pd.concat(frames).drop_duplicates(...)
Aggregate ==
    /\ pc = "loop"
    /\ dev >= Len(access)
    /\ ~NoFrames(frames)
    /\ df_all' = drop_duplicates(concat(frames))
    /\ pc' = "store_sqlite"
    /\ UNCHANGED <<access, dev, hostname, arp_map, open, frames, sqlite,
                   excel, exit_status, today, collected>>
    /\ UNCHANGED <<vendVars, frameVars>> /\ MainOnly

\* store_sqlite(df_all); an exception leaves main uncaught
StoreSqlite ==
    /\ pc = "store_sqlite"
    /\ \/ /\ sqlite' = Written(df_all)
          /\ pc' = "store_excel"
          /\ UNCHANGED exit_status
       \/ /\ exit_status' = 1
          /\ pc' = "exited"
          /\ UNCHANGED sqlite
    /\ UNCHANGED <<access, dev, hostname, arp_map, open, frames, df_all,
                   excel, today, collected>>
    /\ UNCHANGED <<vendVars, frameVars>> /\ MainOnly

\* store_excel(df_all), and main returns
StoreExcel ==
    /\ pc = "store_excel"
    /\ \/ /\ excel' = Written(df_all)
          /\ exit_status' = 0
       \/ /\ exit_status' = 1
          /\ UNCHANGED excel
    /\ pc' = "exited"
    /\ UNCHANGED <<access, dev, hostname, arp_map, open, frames, df_all,
                   sqlite, today, collected>>
    /\ UNCHANGED <<vendVars, frameVars>> /\ MainOnly

MainNext ==
    \/ Midnight
    \/ ArpConnect
    \/ ArpEnable
    \/ ArpSend
    \/ ArpDisconnect
    \/ NextDevice
    \/ Connect
    \/ Enable
    \/ Hostname
    \/ Status
    \/ MacTable
    \/ LldpConnect
    \/ LldpEnable
    \/ LldpSend
    \/ LldpDisconnect
    \/ Interfaces
    \/ Disconnect
    \/ Merge
    \/ ExitNoData
    \/ Aggregate
    \/ StoreSqlite
    \/ StoreExcel

NormNext ==
    \/ NormalizeMac
    \/ NormalizeMacAgain
    \/ NormalizePort
    \/ NormalizePortAgain

TrafNext ==
    \/ ReadHeader
    \/ SkipLine
    \/ EmitRecord
    \/ AgeRaises
    \/ ReturnRows

VendNext ==
    \/ \E r \in workers, mac \in Macs : CallGetVendor(r, mac)
    \/ \E r \in workers : CacheHit(r)
    \/ \E r \in workers : CacheMiss(r)
    \/ \E r \in workers, resp \in Responses : ExternalLookup(r, resp)
    \/ \E r \in workers : SetDict(r)
    \/ \E r \in workers : ReadStore(r)
    \/ \E r \in workers : TestMembership(r)
    \/ \E r \in workers : WriteStore(r)
    \/ \E r \in workers : ReturnVendor(r)

RunsNext ==
    \/ VendNext
    \/ \E r \in workers : NextCall(r)
    \/ NewRun

MergeNext ==
    \/ ParseOutputs
    \/ MergeFails
    \/ MergeReturns

InitNorm ==
    NormInit /\ TrafIdle /\ ClockIdle /\ VendIdle /\ MergeIdle /\ EmptyFrames /\ MainIdle
InitTraffic ==
    NormIdle /\ TrafInit /\ VendIdle /\ MergeIdle /\ EmptyFrames /\ MainIdle
InitAge ==
    NormIdle /\ AgeInit /\ VendIdle /\ MergeIdle /\ EmptyFrames /\ MainIdle
InitVendor ==
    NormIdle /\ TrafIdle /\ ClockIdle /\ VendInit /\ MergeIdle /\ EmptyFrames /\ MainIdle
InitRuns ==
    NormIdle /\ TrafIdle /\ ClockIdle /\ RunsInit /\ MergeIdle /\ EmptyFrames /\ MainIdle
InitMerge ==
    NormIdle /\ TrafIdle /\ VendIdle /\ MergeInit /\ MainIdle
InitMain ==
    NormIdle /\ TrafIdle /\ ClockIdle /\ MergeIdle /\ MainInit

\* the normalisers on their inputs
SpecNorm == InitNorm /\ [][NormNext]_vars
\* parse_last_traffic on any lines
SpecTraffic == InitTraffic /\ [][TrafNext]_vars
\* parse_last_traffic on one header with one 'Last input' line
SpecAge == InitAge /\ [][TrafNext]_vars
\* two interleaved get_vendor calls
SpecVendor == InitVendor /\ [][VendNext]_vars
\* get_vendor calls one after the other, over several runs
SpecRuns == InitRuns /\ [][RunsNext]_vars
\* collect_switch_data's parsers and merge
SpecMerge == InitMerge /\ [][MergeNext]_vars
\* main
SpecMain == InitMain /\ [][MainNext]_vars

(***************************************************************************)
(* The properties.                                                         *)
(***************************************************************************)
\* the number of rows of a file or frame that carry the OUI o
Count(f, o) == Cardinality({k \in DOMAIN f : f[k].oui = o})

\* the OUIs whose external lookup has failed
FailedOuis == {Oui(m) : m \in failed}

\* the hex digits of a text, in order
HexOnly(text) ==
    LET IsHex(c) == c \in Digits \cup {"a", "b", "c", "d", "e", "f",
                                       "A", "B", "C", "D", "E", "F"}
    IN  SelectSeq(text, IsHex)

\* the duration an age token denotes: none for the token never, otherwise
\* its number of seconds, zero included
Denoted(text) ==
    IF Lower(text) = <<"n", "e", "v", "e", "r">> THEN NoDelta
    ELSE IF age_to_timedelta(text) = NoDelta THEN 0
    ELSE age_to_timedelta(text)

\* the position of the last header line before line n, 0 when there is none
LastHdr(n) ==
    LET hs == {h \in 1..(n - 1) : lines[h].kind = "hdr"}
    IN  IF hs = {} THEN 0 ELSE CHOOSE h \in hs : \A g \in hs : g <= h

\* every access device's collection has ended
AllAttempted == \A d \in DOMAIN access : collected[d].state \in {"ok", "failed"}

\* main has built the aggregate
Aggregated ==
    \/ pc \in {"store_sqlite", "store_excel"}
    \/ pc = "exited" /\ frames # <<>>

\* the rows that frames holds for the device d
RowsOf(d) == {r \in Range(concat(frames)) : r.switch_ip = d}

\* C1: when collect_switch_data ends on a status output with N distinct
\* canonical ports, it has returned a snapshot of exactly N rows, whatever
\* the MAC-table, LLDP and traffic records are (fails: an empty record set
\* makes the merge raise, several records of a port multiply its row)
C1_MergeCompleteness ==
    mpc \in {"returned", "raised"} =>
        /\ mpc = "returned"
        /\ Len(snapshot) =
             Cardinality({normalize_port(out_if[k].port) : k \in DOMAIN out_if})

\* C2: once two get_vendor calls for MACs of the same OUI have both ended,
\* however their steps interleaved, the persisted cache holds exactly one
\* entry for that OUI
C2_OneEntryPerOui ==
    ( /\ workers = {1, 2}
      /\ gpc[1] = "done" /\ gpc[2] = "done"
      /\ Oui(gmac[1]) = Oui(gmac[2]) )
    => Count(store, Oui(gmac[1])) = 1

\* C2: both calls missed the cache, looked the vendor up, read a file
\* without the OUI and wrote
C2_BothWrote ==
    /\ workers = {1, 2}
    /\ gpc[1] = "done" /\ gpc[2] = "done"
    /\ Oui(gmac[1]) = Oui(gmac[2])
    /\ \A r \in workers :
         gvend[r] # "" /\ Oui(gmac[r]) \notin OuiValues(gdf[r])

\* C3: every open device session belongs to an operation that is still
\* running: the ARP session to get_arp_table, a main session to the
\* collect_switch_data of the current device, an LLDP session to its
\* get_lldp_neighbors (fails: no exit path through an exception closes the
\* session)
C3_SessionsClosed ==
    \A s \in open :
        \/ /\ s.kind = "arp"
           /\ pc \in {"arp_enable", "arp_send", "arp_disconnect"}
        \/ /\ s.kind = "main"
           /\ s.dev = dev
           /\ pc \in {"enable", "hostname", "status", "mac", "lldp_connect",
                      "lldp_enable", "lldp_send", "lldp_disconnect",
                      "interfaces", "disconnect"}
        \/ /\ s.kind = "lldp"
           /\ s.dev = dev
           /\ pc \in {"lldp_enable", "lldp_send", "lldp_disconnect"}

\* C4 as stated: a failed device has no row in the aggregate, every device
\* is attempted, and every row of a device that succeeded is in the
\* aggregate (fails: main drops the rows whose (switch_name, port,
\* snapshot_date) an earlier row has)
C4_AllRowsPresent ==
    /\ \A d \in DOMAIN access : collected[d].state = "failed" => RowsOf(d) = {}
    /\ Aggregated =>
         /\ AllAttempted
         /\ \A d \in DOMAIN access :
              collected[d].state = "ok" =>
                  Range(collected[d].rows) \subseteq Range(df_all)

\* C4, amended: a failed device has no row in the aggregate, every device is
\* attempted, and a row of a device that succeeded is in the aggregate
\* unless an earlier row of the aggregation (of an earlier device that
\* succeeded, or earlier in the same device's snapshot) has the same
\* (switch_name, port, snapshot_date)
C4_FailureIsolated ==
    /\ \A d \in DOMAIN access : collected[d].state = "failed" => RowsOf(d) = {}
    /\ Aggregated =>
         /\ AllAttempted
         /\ \A k \in DOMAIN df_all : collected[df_all[k].switch_ip].state = "ok"
         /\ \A d \in DOMAIN access :
              collected[d].state = "ok" =>
                  \A k \in DOMAIN collected[d].rows :
                      LET r == collected[d].rows[k]
                      IN  \/ r \in Range(df_all)
                          \/ \E e \in 1..d :
                               /\ collected[e].state = "ok"
                               /\ \E j \in DOMAIN collected[e].rows :
                                    /\ e < d \/ j < k
                                    /\ AggregateKey(collected[e].rows[j])
                                         = AggregateKey(r)

\* C4: the aggregate was built after a device failed and a later one
\* succeeded, and holds the later one's rows
C4_FailedThenCollected ==
    /\ Aggregated
    /\ \E d1, d2 \in DOMAIN access :
         /\ d1 < d2
         /\ collected[d1].state = "failed"
         /\ collected[d2].state = "ok"
         /\ collected[d2].rows # <<>>
         /\ Range(collected[d2].rows) \subseteq Range(df_all)

\* C5: after the external lookup for an OUI has failed, no get_vendor call
\* for a MAC of that OUI performs an external lookup, every such call that
\* ends returns "Unknown", and once the failing call has stored its result
\* both the in-memory cache and the persisted file hold "Unknown" for the
\* OUI, in this run and after a reload in a later run
C5_UnknownCached ==
    /\ \A r \in workers :
         /\ gpc[r] = "lookup" => Oui(gmac[r]) \notin FailedOuis
         /\ (gpc[r] = "done" /\ Oui(gmac[r]) \in FailedOuis) => gret[r] = "Unknown"
    /\ \A o \in FailedOuis :
         (\A r \in workers :
             ~(Oui(gmac[r]) = o /\ gpc[r] \in {"set", "read", "test", "write"}))
         => /\ o \in DOMAIN oui_dict
            /\ oui_dict[o] = "Unknown"
            /\ \E k \in DOMAIN store : store[k] = [oui |-> o, vendor |-> "Unknown"]

\* C5: in a later run, a call for another MAC of an OUI whose lookup failed
\* has returned "Unknown"
C5_LaterRunHit ==
    /\ run >= 2
    /\ \E r \in workers :
         /\ gpc[r] = "done"
         /\ gmac[r] \notin failed
         /\ Oui(gmac[r]) \in FailedOuis
         /\ gret[r] = "Unknown"

\* C6: normalize_mac gives the lower-case colon-separated octets of the hex
\* digits of its input, whatever the separators, and applied to its own
\* result gives that result (fails: only "." is removed, so "-" and ":" are
\* chunked as if they were digits)
C6_MacCanonical ==
    (fn = "normalize_mac" /\ once # None) =>
        /\ once = JoinPairs(Lower(HexOnly(raw)))
        /\ twice # None => twice = once

\* C7: normalize_port applied to its own result gives that result (fails:
\* the short code and the rest of the text can spell a long prefix again)
C7_PortIdempotent ==
    (fn = "normalize_port" /\ twice # None) => twice = once

\* C8: when no device yielded a snapshot main never reaches the sinks, and
\* once it has exited every device has been attempted, the exit status is
\* not zero and no sink is written; a sink is written only after every
\* device has been attempted and a snapshot was collected, and main exits
\* with status zero only with both sinks written
C8_NoDataExit ==
    /\ (\A d \in DOMAIN access : collected[d].state # "ok") =>
         /\ pc \notin {"store_sqlite", "store_excel"}
         /\ ~sqlite.written /\ ~excel.written
         /\ pc = "exited" => AllAttempted /\ exit_status = 1
    /\ (sqlite.written \/ excel.written \/ pc \in {"store_sqlite", "store_excel"}) =>
         /\ AllAttempted
         /\ \E d \in DOMAIN access : collected[d].state = "ok"
    /\ (pc = "exited" /\ exit_status = 0) => sqlite.written /\ excel.written

\* C8: main has exited after the collection of each of several devices failed
C8_AllFailed ==
    /\ pc = "exited"
    /\ Len(access) >= 2
    /\ \A d \in DOMAIN access : collected[d].state = "failed"
    /\ exit_status = 1
    /\ ~sqlite.written /\ ~excel.written

\* C9: the row made from a 'Last input X, output Y,' line holds now minus
\* the smaller of the durations X and Y denote, a zero age counting as a
\* duration, and "Never" only when both are the token never (fails: an age
\* of zero is dropped like never)
C9_SmallerAgeWins ==
    \A k \in DOMAIN rows :
        LET x == Denoted(lines[src[k]].inp)
            y == Denoted(lines[src[k]].out)
        IN  rows[k].last_traffic_seen =
                IF x = NoDelta /\ y = NoDelta THEN Never
                ELSE IF x = NoDelta THEN now - y
                ELSE IF y = NoDelta THEN now - x
                ELSE now - Min(x, y)

\* C10: every row was made from a 'Last input' line that has a header
\* before it and carries the canonical port of the last such header, no two
\* rows were made under the same header, and right after a row is appended
\* the current port is None
C10_OneRecordPerHeader ==
    /\ Len(src) = Len(rows)
    /\ \A k \in DOMAIN rows :
         /\ lines[src[k]].kind = "last"
         /\ LastHdr(src[k]) # 0
         /\ rows[k].port = normalize_port(lines[LastHdr(src[k])].port)
    /\ \A j, k \in DOMAIN rows : j # k => LastHdr(src[j]) # LastHdr(src[k])
    /\ (src # <<>> /\ ln = src[Len(src)] + 1) => cur_port = None

\* C10: the parser has returned from lines where two 'Last input' lines
\* follow one header, and only the first of them made a row
C10_SecondLineSkipped ==
    /\ tpc = "returned"
    /\ \E h, a, b \in DOMAIN lines :
         /\ h < a /\ a < b
         /\ lines[h].kind = "hdr"
         /\ lines[a].kind = "last" /\ lines[b].kind = "last"
         /\ \A g \in (h + 1)..b : lines[g].kind # "hdr"
         /\ a \in Range(src)
         /\ b \notin Range(src)

====
